---- MODULE Spec2Model ----
(***************************************************************************)
(* Model of the Rose Rocket Apps Script library: the per-instance access   *)
(* token cache (getAccessTokenForInstance, manifest_putpayment.js), the    *)
(* InstanceManager configuration lookup (orders_create_multi_stop.js), a   *)
(* resource operation that uses the token (putPaymentForManifest) and the  *)
(* paginated order search (searchOrders, orders_search.js).                *)
(*                                                                         *)
(* JavaScript values are encoded so that every comparison is between       *)
(* values of one type: a missing object is a record with present = FALSE,  *)
(* null/undefined returned to a caller is the string NULL.                 *)
(***************************************************************************)
EXTENDS Integers, Sequences, FiniteSets, TLC

VARIABLES
    now,           \* Date.now(), in milliseconds
    properties,    \* PropertiesService script properties: name -> kind of stored value
    instances,     \* InstanceManager.instances (lazily loaded configurations)
    ACCESS_TOKEN,  \* the global token cache: instance name -> entry
    op,            \* per execution: the top-level function it is running
    tok,           \* per execution: the frame of getAccessTokenForInstance
    pay,           \* per execution: the frame of putPaymentForManifest
    so,            \* per execution: the frame of searchOrders
    netlog,        \* racing executions: the exchanges the token endpoint granted
    calls,         \* racing executions: calls made so far
    backend,       \* repeated search: the number of orders the backend holds
    earlier,       \* repeated search: what the previous run returned
    fo,            \* per execution: the frame of findOrdersByContainerId
    web,           \* the web app: the last event given to doPost and its response
    mi,            \* the last call of getManifestIdForInTransitOrder
    mret,          \* the last call made on the InstanceManager
    ro             \* per execution: the frame of a resource operation

vars == <<now, properties, instances, ACCESS_TOKEN, op, tok, pay, so, netlog, calls,
          backend, earlier, fo, web, mi, mret, ro>>

(* the variables of the scenarios that stand apart from the token cache *)
side == <<web, mi, mret, ro>>

----------------------------------------------------------------------------
(* Bounds of the model *)

MaxNow == 2000          \* the clock stops advancing here
TickMs == 1000          \* the clock advances in steps of this many ms
MaxExpiresIn == 1       \* largest expires_in (seconds) the identity endpoint sends
MaxCalls == 3           \* racing executions: calls they make in total
MaxFullPages == 2       \* the backend holds at most this many full pages (and a rest)
Rem == 20               \* size of a short page
MaxLegs == 2            \* an order has at most this many legs

(* Program constants *)

MsPerSecond == 1000     \* expiresIn * 1000
limit == 50             \* searchOrders: const limit = 50
maxRetries == 3         \* findOrdersByContainerId: const maxRetries = 3

----------------------------------------------------------------------------
(* Values *)

NULL == "null"
ABSENT == "absent"

Procs == {"p1", "p2"}       \* executions; "p1" is the single-threaded one
Main == "p1"

Instance == {"Amado", "Sonot"}               \* the Instance enum
InstanceNames == Instance \cup {"Nope"}      \* names a caller may pass

Tokens == {"tok1", "tok2"}

NoEntry == [present |-> FALSE, token |-> "", expires_at |-> 0]

(* What UrlFetchApp.fetch(RR_TOKEN_ENDPOINT) can produce:                  *)
(*   exception : fetch throws (network failure)                            *)
(*   non2xx    : a response whose code is outside 200..299                 *)
(*   badjson   : 2xx, body is not JSON                                     *)
(*   nodata    : 2xx, JSON without a data envelope                         *)
(*   data      : 2xx, {data: {access_token?, expires_in?}}                 *)
ExpiresInValues == (-1) .. MaxExpiresIn

NoResponse == [kind |-> "none", access_token |-> ABSENT,
               has_expires_in |-> FALSE, expires_in |-> 0]

TokenResponses ==
    {[kind |-> k, access_token |-> ABSENT, has_expires_in |-> FALSE, expires_in |-> 0] :
        k \in {"exception", "non2xx", "badjson", "nodata"}}
    \cup {[kind |-> "data", access_token |-> a, has_expires_in |-> FALSE, expires_in |-> 0] :
        a \in Tokens \cup {ABSENT}}
    \cup {[kind |-> "data", access_token |-> a, has_expires_in |-> TRUE, expires_in |-> e] :
        a \in Tokens \cup {ABSENT}, e \in ExpiresInValues}

----------------------------------------------------------------------------
(* InstanceManager *)

(* A script property holds "none" (no such property), "bad" (a value     *)
(* that is not JSON), "json" (a configuration without SUBDOMAIN) or          *)
(* "json_sub" (a configuration with SUBDOMAIN "athn").                       *)
Parsable(value) == value \in {"json", "json_sub"}

(* constructor: this.instances = null; reads counts getProperties() calls *)
NotLoaded == [loaded |-> FALSE, names |-> {},
              configs |-> [n \in InstanceNames |-> "none"], reads |-> 0]

(* what a load of the store gives *)
Loaded ==
    [loaded |-> TRUE,
     names |-> {n \in DOMAIN properties : Parsable(properties[n])},
     configs |-> [n \in DOMAIN properties |->
                     IF Parsable(properties[n]) THEN properties[n] ELSE "none"],
     reads |-> instances.reads + 1]

(* getAllConfigs: load once; a property whose value is not JSON is skipped *)
getAllConfigsReload == Loaded

getAllConfigs == IF instances.loaded THEN instances ELSE Loaded

(* getConfig(instanceName) returns a config object (TRUE) or null (FALSE) *)
getConfig(instanceName) == instanceName \in getAllConfigs.names

(* getInstanceBaseURL(instanceName) is null exactly when getConfig is *)
getInstanceBaseURL(instanceName) ==
    IF ~getConfig(instanceName) THEN NULL
    ELSE IF getAllConfigs.configs[instanceName] = "json_sub"
    THEN "https://athn.roserocket.com"
    ELSE "https://platform.roserocket.com"

(* the object getConfig(instanceName) returns, null when there is none *)
getConfigValue(instanceName) ==
    IF getConfig(instanceName) THEN getAllConfigs.configs[instanceName] ELSE NULL

(* isValidInstance(instanceName): a non-empty string that is a loaded key *)
isValidInstance(instanceName) ==
    instanceName # "" /\ instanceName \in getAllConfigs.names

----------------------------------------------------------------------------
(* getAccessTokenForInstance *)

NoTok == [pc |-> "none", arg |-> NULL, seen |-> NoEntry, seenNow |-> 0,
          reqs |-> 0, resp |-> NoResponse, ret |-> NULL]

(* line 129: a token exists and is still valid *)
CacheValidFlipped(entry, clock) ==
    entry.present /\ entry.token # "" /\ entry.expires_at < clock

CacheValid(entry, clock) ==
    entry.present /\ entry.token # "" /\ entry.expires_at > clock

(* the key under which the entry of instanceName is kept *)
CacheKeySingle(instanceName) == "Amado"

CacheKey(instanceName) == instanceName

(* line 160: both fields are there (and truthy): the exchange succeeded *)
ExchangeOk(r) ==
    /\ r.kind = "data"
    /\ r.access_token # ABSENT
    /\ r.has_expires_in
    /\ r.expires_in # 0

(* lines 167-173: the record stored for a successful exchange *)
NewEntryKeepExpiry(old, r, clock) ==
    [present |-> TRUE, token |-> r.access_token,
     expires_at |-> IF old.present THEN old.expires_at
                    ELSE clock + r.expires_in * MsPerSecond]

NewEntry(old, r, clock) ==
    [present |-> TRUE, token |-> r.access_token,
     expires_at |-> clock + r.expires_in * MsPerSecond]

(* lines 151-186: how the call ends for a response: "returned" or "raised" *)
TokenEndUncaught(r) ==
    IF r.kind \in {"badjson", "nodata"} THEN "raised" ELSE "returned"

TokenEnd(r) == "returned"

(* lines 155-186: the value returned *)
TokenValueDropped(r) == NULL

TokenValue(r) == IF ExchangeOk(r) THEN r.access_token ELSE NULL

(* lines 155-186: the cache after the response was handled *)
CacheAfterEvict(cache, instanceName, r, clock) ==
    IF ExchangeOk(r)
    THEN [cache EXCEPT ![CacheKey(instanceName)] =
              NewEntry(cache[CacheKey(instanceName)], r, clock)]
    ELSE [cache EXCEPT ![CacheKey(instanceName)] = NoEntry]

CacheAfterNoReplace(cache, instanceName, r, clock) ==
    IF ExchangeOk(r) /\ ~cache[CacheKey(instanceName)].present
    THEN [cache EXCEPT ![CacheKey(instanceName)] =
              NewEntry(cache[CacheKey(instanceName)], r, clock)]
    ELSE cache

CacheAfter(cache, instanceName, r, clock) ==
    IF ExchangeOk(r)
    THEN [cache EXCEPT ![CacheKey(instanceName)] =
              NewEntry(cache[CacheKey(instanceName)], r, clock)]
    ELSE cache

(* lines 123-152: the call up to the point where it waits for the token    *)
(* endpoint. Destructuring the null that getConfig returns for an unknown  *)
(* name throws a TypeError outside the try block.                          *)
TokenFrameAtEntry(instanceName) ==
    LET entry == ACCESS_TOKEN[CacheKey(instanceName)]
        base == [NoTok EXCEPT !.arg = instanceName]
    IN  IF ~getConfig(instanceName)
        THEN [base EXCEPT !.pc = "raised"]
        ELSE IF CacheValid(entry, now)
        THEN [base EXCEPT !.pc = "returned", !.seen = entry, !.seenNow = now,
                          !.ret = entry.token]
        ELSE [base EXCEPT !.pc = "fetching", !.seen = entry, !.seenNow = now,
                          !.reqs = 1]

TokenEnter(p, instanceName) ==
    /\ instances' = getAllConfigs
    /\ tok' = [tok EXCEPT ![p] = TokenFrameAtEntry(instanceName)]
    /\ UNCHANGED <<now, properties, ACCESS_TOKEN>>

(* lines 152-186: the response of the token endpoint arrives *)
TokenHandle(p, r) ==
    /\ tok[p].pc = "fetching"
    /\ ACCESS_TOKEN' = CacheAfter(ACCESS_TOKEN, tok[p].arg, r, now)
    /\ tok' = [tok EXCEPT ![p].pc = TokenEnd(r),
                          ![p].resp = r,
                          ![p].ret = IF TokenEnd(r) = "returned" THEN TokenValue(r) ELSE NULL]
    /\ UNCHANGED <<now, properties, instances>>

TokenFinished(p) == tok[p].pc \in {"returned", "raised"}

----------------------------------------------------------------------------
(* putPaymentForManifest: a resource operation built on the token *)

NoPay == [pc |-> "none", reqs |-> 0, bearer |-> NULL, ret |-> NULL]

PutResponses == {"exception", "non2xx", "json", "text"}

(* lines 59-80: the value returned for the response of the PUT *)
PayValue(r) ==
    CASE r = "json" -> "responseData"
      [] r = "text" -> "responseBody"
      [] OTHER -> NULL

----------------------------------------------------------------------------
(* searchOrders *)

(* Totals the list endpoint may report and numbers of orders in a page *)
Totals == {k * limit + r : k \in 0 .. MaxFullPages, r \in {0, Rem}}
PageSizes == {0, Rem, limit}

(* What UrlFetchApp.fetch(apiUrl) can produce:                             *)
(*   exception : fetch throws                                              *)
(*   non200    : a response whose code is not 200                          *)
(*   badjson   : 200, body is not JSON (or is JSON null)                   *)
(*   json      : 200, {orders?: [n orders], total?: number}                *)
NoPage == [kind |-> "none", has_total |-> FALSE, total |-> 0,
           has_orders |-> FALSE, n |-> 0]

PageResponses ==
    {[NoPage EXCEPT !.kind = k] : k \in {"exception", "non200", "badjson"}}
    \cup {[kind |-> "json", has_total |-> FALSE, total |-> 0, has_orders |-> FALSE, n |-> 0]}
    \cup {[kind |-> "json", has_total |-> FALSE, total |-> 0, has_orders |-> TRUE, n |-> n] :
            n \in PageSizes}
    \cup {[kind |-> "json", has_total |-> TRUE, total |-> t, has_orders |-> FALSE, n |-> 0] :
            t \in Totals}
    \cup {[kind |-> "json", has_total |-> TRUE, total |-> t, has_orders |-> TRUE, n |-> n] :
            t \in Totals, n \in PageSizes}

(* the orders of a page, in server order: the backend numbers its orders *)
PageOrders(offset, r) == [i \in 1 .. r.n |-> offset + i]

Min(a, b) == IF a < b THEN a ELSE b

(* the page a backend holding T orders returns for an offset *)
HonestPage(T, offset) ==
    [kind |-> "json", has_total |-> TRUE, total |-> T, has_orders |-> TRUE,
     n |-> IF offset >= T THEN 0 ELSE Min(limit, T - offset)]

NoOrders == [null |-> TRUE, orders |-> << >>]

NoSearch == [pc |-> "none", instance |-> NULL, offset |-> 0, allOrders |-> << >>,
             totalOrders |-> 0, totalCalls |-> 0, requested |-> << >>,
             resp |-> NoPage, honest |-> Totals, ret |-> NoOrders]

(* lines 88-93: total is taken from the response when it is a non-zero number *)
TotalAfter(totalOrders, r) ==
    IF r.has_total /\ r.total # 0 THEN r.total ELSE totalOrders

(* line 98: no orders array, or an empty one *)
EmptyPageIgnored(r) == FALSE

EmptyPage(r) == ~r.has_orders \/ r.n = 0

(* line 104: the page is appended to what was accumulated *)
ConcatPrepend(allOrders, page) == page \o allOrders

Concat(allOrders, page) == allOrders \o page

(* line 112: the next offset *)
NextOffsetByPage(offset, page) == offset + Len(page)

NextOffsetStuck(offset, page) == offset

NextOffset(offset, page) == offset + limit

(* lines 121-124: the loop has ended, allOrders is returned *)
SearchReturn(f) == [f EXCEPT !.pc = "returned",
                             !.ret = [null |-> FALSE, orders |-> f.allOrders]]

(* lines 78-81: a response whose code is not 200 ends the call with null;  *)
(* every non-2xx response is such a response                               *)
FailedPagePartial(f, r) ==
    [f EXCEPT !.pc = "returned", !.resp = r,
              !.ret = [null |-> FALSE, orders |-> f.allOrders]]

FailedPage(f, r) == [f EXCEPT !.pc = "returned", !.resp = r, !.ret = NoOrders]

(* line 107: all known orders were retrieved *)
ReachedTotal(allOrders, total) == Len(allOrders) >= total

(* line 115: the next offset is at or past the expected total *)
OffsetPastStrict(offset, total) == offset > total

OffsetPast(offset, total) == offset >= total

(* lines 78-119: one response of the list endpoint, up to the point where  *)
(* the function returns or asks for the token of the next iteration        *)
SearchAfterPage(f, r) ==
    CASE r.kind \in {"exception", "badjson"} ->
            [f EXCEPT !.pc = "raised", !.resp = r]
      [] r.kind = "non200" -> FailedPage(f, r)
      [] OTHER ->
            LET total == TotalAfter(f.totalOrders, r)
                f1 == [f EXCEPT !.resp = r, !.totalCalls = @ + 1, !.totalOrders = total]
            IN  IF EmptyPage(r) THEN SearchReturn(f1)
                ELSE LET page == PageOrders(f.offset, r)
                         f2 == [f1 EXCEPT !.allOrders = Concat(@, page)]
                         f3 == [f2 EXCEPT !.offset = NextOffset(@, page)]
                     IN  IF ReachedTotal(f2.allOrders, total) THEN SearchReturn(f2)
                         ELSE IF OffsetPast(f3.offset, total) THEN SearchReturn(f3)
                         ELSE IF Len(f3.allOrders) < total THEN [f3 EXCEPT !.pc = "token68"]
                         ELSE SearchReturn(f3)

(* no run of searchOrders has returned yet *)
NoEarlier == [done |-> FALSE, ret |-> NoOrders]

(* findOrdersByContainerId has not been called *)
NoFind == [pc |-> "none", instance |-> NULL, bearer |-> NULL, attempt |-> 0,
           reqs |-> 0, outs |-> << >>, sleeps |-> << >>, ret |-> "none"]

(* The resource operations that validate their instance against the enum *)
ResourceOps == {"getOrderByOrderId", "getOrderLegsByOrderId", "uploadFileToOrder",
                "deleteOrderFile", "createOrder", "postRoserocketInternalNote"}

(* no resource operation has been called *)
NoResource == [pc |-> "none", name |-> "none", instance |-> NULL, bearer |-> NULL,
               reqs |-> 0, ret |-> "none"]

(* an execution is between two top-level calls *)
AtRest(p) ==
    \/ op[p] = "idle"
    \/ op[p] = "getAccessTokenForInstance" /\ TokenFinished(p)
    \/ op[p] = "putPaymentForManifest" /\ pay[p].pc \in {"returned", "raised"}
    \/ op[p] = "searchOrders" /\ so[p].pc \in {"returned", "raised"}
    \/ op[p] = "findOrdersByContainerId" /\ fo[p].pc \in {"returned", "raised"}
    \/ op[p] \in ResourceOps /\ ro[p].pc \in {"returned", "raised"}

(* a caller invokes getAccessTokenForInstance(instanceName) directly *)
CallGetToken(p, instanceName) ==
    /\ AtRest(p)
    /\ op' = [op EXCEPT ![p] = "getAccessTokenForInstance"]
    /\ pay' = [pay EXCEPT ![p] = NoPay]
    /\ so' = [so EXCEPT ![p] = NoSearch]
    /\ TokenEnter(p, instanceName)

(* lines 9-14: putPaymentForManifest asks for the token *)
PayStart(p, instanceName) ==
    /\ AtRest(p)
    /\ op' = [op EXCEPT ![p] = "putPaymentForManifest"]
    /\ pay' = [pay EXCEPT ![p] = [NoPay EXCEPT !.pc = "token"]]
    /\ so' = [so EXCEPT ![p] = NoSearch]
    /\ TokenEnter(p, instanceName)

(* lines 15-55: no token: return null; otherwise send the PUT *)
PayAfterToken(p) ==
    /\ op[p] = "putPaymentForManifest"
    /\ pay[p].pc = "token"
    /\ TokenFinished(p)
    /\ pay' = [pay EXCEPT ![p] =
          IF tok[p].pc = "raised" THEN [@ EXCEPT !.pc = "raised"]
          ELSE IF tok[p].ret = NULL THEN [@ EXCEPT !.pc = "returned"]
          ELSE IF getInstanceBaseURL(tok[p].arg) = NULL THEN [@ EXCEPT !.pc = "returned"]
          ELSE [@ EXCEPT !.pc = "put", !.reqs = 1, !.bearer = tok[p].ret]]
    /\ instances' = getAllConfigs
    /\ UNCHANGED <<now, properties, ACCESS_TOKEN, op, tok, so>>

(* lines 55-80: the response of the PUT *)
PayResponse(p, r) ==
    /\ op[p] = "putPaymentForManifest"
    /\ pay[p].pc = "put"
    /\ pay' = [pay EXCEPT ![p].pc = "returned", ![p].ret = PayValue(r)]
    /\ UNCHANGED <<now, properties, instances, ACCESS_TOKEN, op, tok, so>>

(* lines 46-61: searchOrders validates the instance against the enum and  *)
(* asks for the token. INSTANCES (line 53) is a global of the deployed     *)
(* project; the value read from it is not used.                            *)
SearchStart(p, instance) ==
    /\ AtRest(p)
    /\ op' = [op EXCEPT ![p] = "searchOrders"]
    /\ pay' = [pay EXCEPT ![p] = NoPay]
    /\ IF instance \notin Instance
       THEN /\ so' = [so EXCEPT ![p] = [NoSearch EXCEPT !.pc = "returned",
                                                        !.instance = instance]]
            /\ tok' = [tok EXCEPT ![p] = NoTok]
            /\ UNCHANGED <<now, properties, instances, ACCESS_TOKEN>>
       ELSE /\ so' = [so EXCEPT ![p] = [NoSearch EXCEPT !.pc = "token61",
                                                        !.instance = instance]]
            /\ TokenEnter(p, instance)

(* lines 61-68: the first token is dropped; the loop asks again *)
SearchAfterToken61(p) ==
    /\ op[p] = "searchOrders"
    /\ so[p].pc = "token61"
    /\ TokenFinished(p)
    /\ IF tok[p].pc = "raised"
       THEN /\ so' = [so EXCEPT ![p].pc = "raised"]
            /\ UNCHANGED <<now, properties, instances, ACCESS_TOKEN, tok>>
       ELSE /\ so' = [so EXCEPT ![p].pc = "token68"]
            /\ TokenEnter(p, so[p].instance)
    /\ UNCHANGED <<op, pay>>

(* lines 68-75: the page request is sent with whatever the token call gave *)
SearchAfterToken68(p) ==
    /\ op[p] = "searchOrders"
    /\ so[p].pc = "token68"
    /\ TokenFinished(p)
    /\ so' = [so EXCEPT ![p] =
          IF tok[p].pc = "raised" THEN [@ EXCEPT !.pc = "raised"]
          ELSE [@ EXCEPT !.pc = "page", !.requested = Append(@, so[p].offset)]]
    /\ UNCHANGED <<now, properties, instances, ACCESS_TOKEN, op, tok, pay>>

(* lines 70-119: the response of the list endpoint *)
SearchPageResponse(p, r) ==
    /\ op[p] = "searchOrders"
    /\ so[p].pc = "page"
    /\ LET f == [SearchAfterPage(so[p], r) EXCEPT
                    !.honest = {T \in @ : r = HonestPage(T, so[p].offset)}]
       IN  /\ so' = [so EXCEPT ![p] = f]
           /\ IF f.pc = "token68"
              THEN TokenEnter(p, so[p].instance)
              ELSE UNCHANGED <<now, properties, instances, ACCESS_TOKEN, tok>>
    /\ UNCHANGED <<op, pay>>

----------------------------------------------------------------------------
(* findOrdersByContainerId (manifest_equipment.gs.js): the retry loop *)

(* lines 6-20: the static configuration of instanceManager2 *)
instanceManager2 == [n \in Instance |-> IF n = "Amado" THEN "athn" ELSE "tdcs"]

(* line 41: !config || !config.subdomain *)
NoSubdomain(instanceName) == instanceName \notin DOMAIN instanceManager2

(* What UrlFetchApp.fetch(searchUrl) can produce (muteHttpExceptions):     *)
(*   exception : fetch throws (network failure)                            *)
(*   http      : a response with a code and a body; the body of a 2xx is   *)
(*       orders     : {data: {total > 0, orders: [...]}}                   *)
(*       total_only : {data: {total > 0}} without orders                   *)
(*       empty      : no data envelope, or total 0                         *)
(*       badjson    : not JSON, or the JSON null (lines 68-69 throw)       *)
FindCodes == {200, 302, 400, 404, 500, 503}
FindBodies == {"orders", "total_only", "empty", "badjson"}

FindResponses ==
    {[kind |-> "exception", code |-> 0, body |-> "none"]}
    \cup {[kind |-> "http", code |-> 200, body |-> b] : b \in FindBodies}
    \cup {[kind |-> "http", code |-> c, body |-> "error"] : c \in FindCodes \ {200}}

(* Math.random() * 1000: samples of [0, 1000) *)
Jitters == {0, 500, 999}

RECURSIVE Pow2(_)
Pow2(n) == IF n = 0 THEN 1 ELSE 2 * Pow2(n - 1)

(* lines 77 and 87: Math.pow(2, attempt) * 1000 + Math.random() * 1000 *)
BackoffMs(attempt, jitter) == Pow2(attempt) * 1000 + jitter

(* line 66: responseCode >= 200 && responseCode < 300 *)
Success(responseCode) == responseCode >= 200 /\ responseCode < 300

(* line 74: responseCode >= 500 *)
ServerErrorFrom400(responseCode) == responseCode >= 400

ServerError(responseCode) == responseCode >= 500

(* lines 74 and 86: attempt < maxRetries *)
MayRetryNever(attempt) == FALSE

MayRetry(attempt) == attempt < maxRetries

(* line 61: attempt <= maxRetries *)
LoopConditionOneMore(attempt) == attempt <= maxRetries + 1

LoopCondition(attempt) == attempt <= maxRetries

(* lines 69-73: the value returned for a parsed 2xx body *)
FindValue(body) == IF body = "orders" THEN "orders" ELSE "empty"

(* lines 77 and 87: Utilities.sleep; the call waits in backoff *)
Sleep(f, jitter) ==
    [f EXCEPT !.pc = "backoff",
              !.sleeps = Append(@, [after |-> f.attempt,
                                    ms |-> BackoffMs(f.attempt, jitter)])]

(* line 61 (attempt++ and the loop test), lines 63 and 92-94 *)
LoopNext(f) ==
    IF LoopCondition(f.attempt + 1)
    THEN [f EXCEPT !.pc = "fetch", !.attempt = @ + 1, !.reqs = @ + 1]
    ELSE [f EXCEPT !.pc = "returned", !.attempt = @ + 1, !.ret = NULL]

(* lines 84-89: the catch block; it receives what fetch throws and what    *)
(* parsing a 2xx body throws                                               *)
Caught(f, jitter) == IF MayRetry(f.attempt) THEN Sleep(f, jitter) ELSE LoopNext(f)

(* lines 63-89: one response of the search endpoint *)
FindAfterResponse(f, r, jitter) ==
    LET f1 == [f EXCEPT !.outs = Append(@, r)]
    IN  IF r.kind = "exception" THEN Caught(f1, jitter)
        ELSE IF Success(r.code)
        THEN IF r.body = "badjson" THEN Caught(f1, jitter)
             ELSE [f1 EXCEPT !.pc = "returned", !.ret = FindValue(r.body)]
        ELSE IF ServerError(r.code) /\ MayRetry(f.attempt) THEN Sleep(f1, jitter)
        ELSE [f1 EXCEPT !.pc = "returned", !.ret = NULL]

(* lines 33-34: findOrdersByContainerId asks for the token *)
FindStart(p, instanceName) ==
    /\ AtRest(p)
    /\ op' = [op EXCEPT ![p] = "findOrdersByContainerId"]
    /\ pay' = [pay EXCEPT ![p] = NoPay]
    /\ so' = [so EXCEPT ![p] = NoSearch]
    /\ fo' = [fo EXCEPT ![p] = [NoFind EXCEPT !.pc = "token", !.instance = instanceName]]
    /\ TokenEnter(p, instanceName)

(* lines 35-63: no token or no subdomain: return null; otherwise the first *)
(* attempt is sent. The frame of the token call is gone.                   *)
FindAfterToken(p) ==
    /\ op[p] = "findOrdersByContainerId"
    /\ fo[p].pc = "token"
    /\ TokenFinished(p)
    /\ fo' = [fo EXCEPT ![p] =
          IF tok[p].pc = "raised" THEN [@ EXCEPT !.pc = "raised"]
          ELSE IF tok[p].ret = NULL THEN [@ EXCEPT !.pc = "returned", !.ret = NULL]
          ELSE IF NoSubdomain(fo[p].instance) THEN [@ EXCEPT !.pc = "returned", !.ret = NULL]
          ELSE LoopNext([@ EXCEPT !.bearer = tok[p].ret])]
    /\ tok' = [tok EXCEPT ![p] = NoTok]
    /\ UNCHANGED <<now, properties, instances, ACCESS_TOKEN, op, pay, so>>

(* lines 63-89: the response of the search endpoint *)
FindResponse(p, r, jitter) ==
    /\ op[p] = "findOrdersByContainerId"
    /\ fo[p].pc = "fetch"
    /\ fo' = [fo EXCEPT ![p] = FindAfterResponse(fo[p], r, jitter)]
    /\ UNCHANGED <<now, properties, instances, ACCESS_TOKEN, op, tok, pay, so>>

(* Utilities.sleep returns: the loop goes on with the next attempt *)
FindWake(p) ==
    /\ op[p] = "findOrdersByContainerId"
    /\ fo[p].pc = "backoff"
    /\ fo' = [fo EXCEPT ![p] = LoopNext(fo[p])]
    /\ UNCHANGED <<now, properties, instances, ACCESS_TOKEN, op, tok, pay, so>>

(* doPost (unnamed/part_001): the webhook of the web app *)

(* The event object Apps Script hands to doPost:                           *)
(*   missing      : no event object                                        *)
(*   no_postData  : an event without postData                              *)
(*   no_contents  : postData without contents, or with empty contents      *)
(*   unparsable   : contents that are not JSON                             *)
(*   json_null    : contents that parse to null                            *)
(*   json_scalar  : contents that parse to a number, a string or a boolean *)
(*   object       : contents that parse to an object; each of the fields   *)
(*                  is ABSENT (missing or null), empty or a string         *)
EventNames == {ABSENT, "", "order.status_updated", "order.created"}
StatusNames == {ABSENT, "", "in-transit", "created"}
OrderIds == {ABSENT, "", "ord1", "ord2"}

NoPayload == [kind |-> "missing", event |-> ABSENT, current_status |-> ABSENT,
              order_id |-> ABSENT, extra |-> FALSE]

Events ==
    {[NoPayload EXCEPT !.kind = k] :
        k \in {"missing", "no_postData", "no_contents", "unparsable", "json_null",
               "json_scalar"}}
    \cup {[kind |-> "object", event |-> ev, current_status |-> st, order_id |-> id,
           extra |-> x] :
            ev \in EventNames, st \in StatusNames, id \in OrderIds, x \in BOOLEAN}

(* !v for a field of the payload: missing, null or the empty string *)
Falsy(v) == v \in {ABSENT, ""}

(* the JSON text output of doPost; "thrown" is an exception on its way out *)
Failure(error) ==
    [kind |-> "json", success |-> FALSE, error |-> error,
     current_status |-> ABSENT, order_id |-> ABSENT]

Thrown == [Failure("") EXCEPT !.kind = "thrown"]

(* line 160: the success response *)
SuccessResponse(currentStatus, orderId) ==
    [kind |-> "json", success |-> TRUE, error |-> "",
     current_status |-> currentStatus, order_id |-> orderId]

(* lines 138-160: the checks made on a parsed payload that is not null *)
CheckPayloadStatusFirst(payload) ==
    IF Falsy(payload.event) \/ Falsy(payload.current_status) \/ Falsy(payload.order_id)
    THEN Failure("Missing required fields")
    ELSE IF payload.current_status # "in-transit" THEN Failure("Incorrect status")
    ELSE IF payload.event # "order.status_updated" THEN Failure("Incorrect event type")
    ELSE SuccessResponse(payload.current_status, payload.order_id)

CheckPayload(payload) ==
    IF Falsy(payload.event) \/ Falsy(payload.current_status) \/ Falsy(payload.order_id)
    THEN Failure("Missing required fields")
    ELSE IF payload.event # "order.status_updated" THEN Failure("Incorrect event type")
    ELSE IF payload.current_status # "in-transit" THEN Failure("Incorrect status")
    ELSE SuccessResponse(payload.current_status, payload.order_id)

(* lines 122-160: the body of the outer try; reading a field of null at    *)
(* line 138 throws a TypeError                                             *)
doPostBody(e) ==
    IF e.kind \in {"missing", "no_postData", "no_contents"} THEN Failure("Missing postData")
    ELSE IF e.kind = "unparsable" THEN Failure("Invalid JSON payload")
    ELSE IF e.kind = "json_null" THEN Thrown
    ELSE CheckPayload(e)

(* lines 162-166: the outer catch *)
OuterCatchMissing(result) == result

OuterCatch(result) ==
    IF result.kind = "thrown" THEN Failure("Internal server error") ELSE result

doPost(e) == OuterCatch(doPostBody(e))

NoWeb == [called |-> FALSE, e |-> NoPayload, resp |-> Failure("")]

(* a POST request reaches the web app *)
DoPost(e) ==
    /\ web' = [called |-> TRUE, e |-> e, resp |-> doPost(e)]
    /\ UNCHANGED <<now, properties, instances, ACCESS_TOKEN, op, tok, pay, so,
                   netlog, calls, backend, earlier, fo, mi, mret, ro>>

(* getManifestIdForInTransitOrder (manifest_putpayment.js) *)

(* what getLegsForOrder hands back: null, or a list of legs *)
LegStatuses == {"loaded", "dispatched", "available"}
LegTypes == {"line_haul", "pickup"}
ManifestIds == {"m1", "m2"}

Legs == [status : LegStatuses, type : LegTypes, manifest_id : ManifestIds]

LegLists == UNION {[1 .. n -> Legs] : n \in 0 .. MaxLegs}

(* lines 207 and 210: the leg counts as in transit *)
InTransit(leg) ==
    \/ leg.status = "loaded"
    \/ leg.status = "dispatched" /\ leg.type = "line_haul"

(* lines 206-214: the first loop returns at the first leg that matches *)
RECURSIVE FirstInTransit(_, _)
FirstInTransit(legs, i) ==
    IF i > Len(legs) THEN NULL
    ELSE IF InTransit(legs[i]) THEN legs[i].manifest_id
    ELSE FirstInTransit(legs, i + 1)

(* lines 198-226: null legs give null; the second loop and the end of the  *)
(* function return null as well                                            *)
getManifestIdForInTransitOrder(noLegs, legs) ==
    IF noLegs THEN NULL ELSE FirstInTransit(legs, 1)

NoManifestCall == [called |-> FALSE, null |-> TRUE, legs |-> << >>, ret |-> NULL]

(* getManifestIdForInTransitOrder is called and getLegsForOrder answers *)
GetManifestId(noLegs, legs) ==
    /\ mi' = [called |-> TRUE, null |-> noLegs, legs |-> legs,
              ret |-> getManifestIdForInTransitOrder(noLegs, legs)]
    /\ UNCHANGED <<now, properties, instances, ACCESS_TOKEN, op, tok, pay, so,
                   netlog, calls, backend, earlier, fo, web, mret, ro>>

(* InstanceManager (orders_create_multi_stop.js): calls on the manager *)

ManagerMethods == {"getAllConfigs", "getConfig", "getInstanceBaseURL", "isValidInstance"}
ManagerNames == InstanceNames \cup {""}

(* store: the script properties as they were when the call was made *)
NoManagerCall == [called |-> FALSE, method |-> "none", arg |-> "",
                  all |-> NotLoaded.configs, config |-> NULL, url |-> NULL,
                  valid |-> FALSE, store |-> NotLoaded.configs]

ManagerCall(method, instanceName) ==
    /\ instances' = getAllConfigs
    /\ mret' = [called |-> TRUE, method |-> method, arg |-> instanceName,
                all |-> IF method = "getAllConfigs" THEN getAllConfigs.configs
                        ELSE NotLoaded.configs,
                config |-> IF method = "getConfig" THEN getConfigValue(instanceName)
                           ELSE NULL,
                url |-> IF method = "getInstanceBaseURL"
                        THEN getInstanceBaseURL(instanceName) ELSE NULL,
                valid |-> method = "isValidInstance" /\ isValidInstance(instanceName),
                store |-> properties]
    /\ UNCHANGED <<now, properties, ACCESS_TOKEN, op, tok, pay, so,
                   netlog, calls, backend, earlier, fo, web, mi, ro>>

(* setupConfigs(instances): one property is written per key of the argument *)
SetupValues == {"json", "json_sub"}
SetupArgs == UNION {[names -> SetupValues] : names \in (SUBSET Instance) \ {{}}}

setupConfigs(arg) ==
    /\ properties' = [n \in DOMAIN properties |->
                         IF n \in DOMAIN arg THEN arg[n] ELSE properties[n]]
    /\ UNCHANGED <<now, instances, ACCESS_TOKEN, op, tok, pay, so,
                   netlog, calls, backend, earlier, fo, web, mi, mret, ro>>

(* deleteAllConfigs(): deleteAllProperties *)
deleteAllConfigs ==
    /\ properties' = [n \in DOMAIN properties |-> "none"]
    /\ UNCHANGED <<now, instances, ACCESS_TOKEN, op, tok, pay, so,
                   netlog, calls, backend, earlier, fo, web, mi, mret, ro>>

(* Resource operations: getOrderByOrderId (orders_getorderbyid.js),       *)
(* getOrderLegsByOrderId (orders_getlegsbyorderby.js), uploadFileToOrder    *)
(* and deleteOrderFile (utilities.js), createOrder (orders_create.js),      *)
(* postRoserocketInternalNote (unnamed/part_001)                            *)

(* What UrlFetchApp.fetch of a resource URL can produce (muteHttpExceptions): *)
(*   exception : fetch throws                                               *)
(*   http      : a code and, for a 2xx, a body that is                      *)
(*       full    : JSON with the fields the operation reads                 *)
(*       partial : JSON without them (no legs array, no order.customer.id)  *)
(*       badjson : not JSON                                                 *)
ApiCodes == {200, 201, 204, 400, 404, 500}

ApiResponses ==
    {[kind |-> "exception", code |-> 0, body |-> "none"]}
    \cup {[kind |-> "http", code |-> c, body |-> b] :
            c \in {200, 201}, b \in {"full", "partial", "badjson"}}
    \cup {[kind |-> "http", code |-> c, body |-> "none"] : c \in ApiCodes \ {200, 201}}

(* !Object.values(Instance).includes(instance) *)
InvalidInstanceNever(instance) == FALSE

InvalidInstance(instance) == instance \notin Instance

(* !accessToken *)
NoTokenIgnored(accessToken) == FALSE

NoToken(accessToken) == accessToken = NULL

(* the value an operation returns when it gives up *)
FailureValue(name) == IF name = "postRoserocketInternalNote" THEN "false" ELSE NULL

(* what happens between the enum check and the token call:                 *)
(*   getOrderLegsByOrderId (line 14): instanceManager.isValidInstance      *)
(*   uploadFileToOrder (lines 60-74): the configuration is read,           *)
(*       instanceConfig.SUBDOMAIN of a null configuration throws, a        *)
(*       missing SUBDOMAIN or an invalid description returns null          *)
(*   createOrder (lines 59-63): a null configuration returns null          *)
BeforeToken(name, instance, okDescription) ==
    CASE name = "getOrderLegsByOrderId" ->
            IF isValidInstance(instance) THEN "go" ELSE "null"
      [] name = "uploadFileToOrder" ->
            IF ~getConfig(instance) THEN "raise"
            ELSE IF getConfigValue(instance) # "json_sub" THEN "null"
            ELSE IF ~okDescription THEN "null"
            ELSE "go"
      [] name = "createOrder" ->
            IF getConfig(instance) THEN "go" ELSE "null"
      [] OTHER -> "go"

(* the value returned for a response, "raise" when the exception of fetch  *)
(* is not caught by the operation                                          *)
ResourceValue(name, r) ==
    CASE name \in {"getOrderByOrderId", "uploadFileToOrder"} ->
            IF r.kind = "exception" THEN "raise"
            ELSE IF r.code = 200 /\ r.body # "badjson" THEN "object"
            ELSE NULL
      [] name = "getOrderLegsByOrderId" ->
            IF r.kind = "http" /\ r.code = 200 /\ r.body = "full" THEN "legs" ELSE NULL
      [] name = "createOrder" ->
            IF r.kind = "exception" THEN "raise"
            ELSE IF r.code >= 200 /\ r.code < 300 /\ r.body # "badjson" THEN "object"
            ELSE NULL
      [] name = "postRoserocketInternalNote" ->
            IF r.kind = "http" /\ r.code >= 200 /\ r.code < 300 THEN "true" ELSE "false"
      [] OTHER ->
            IF r.kind = "exception" THEN "raise"
            ELSE IF r.code = 204 THEN "true"
            ELSE "false"

(* deleteOrderFile lines 307-318: the order read by the nested             *)
(* getOrderByOrderId has a customer id                                     *)
HasCustomerId(r) == r.kind = "http" /\ r.code = 200 /\ r.body = "full"

(* the frame once the frame of the operation ends with a value *)
ResourceEnd(f, value) ==
    IF value = "raise" THEN [f EXCEPT !.pc = "raised"]
    ELSE [f EXCEPT !.pc = "returned", !.ret = value]

(* the operation is called: enum check, then what precedes the token call *)
ResourceStart(p, name, instance, okDescription) ==
    /\ AtRest(p)
    /\ op' = [op EXCEPT ![p] = name]
    /\ pay' = [pay EXCEPT ![p] = NoPay]
    /\ so' = [so EXCEPT ![p] = NoSearch]
    /\ LET f == [NoResource EXCEPT !.name = name, !.instance = instance]
       IN  IF InvalidInstance(instance)
           THEN /\ ro' = [ro EXCEPT ![p] = ResourceEnd(f, FailureValue(name))]
                /\ tok' = [tok EXCEPT ![p] = NoTok]
                /\ UNCHANGED <<now, properties, instances, ACCESS_TOKEN>>
           ELSE IF BeforeToken(name, instance, okDescription) # "go"
           THEN /\ ro' = [ro EXCEPT ![p] =
                            ResourceEnd(f, BeforeToken(name, instance, okDescription))]
                /\ tok' = [tok EXCEPT ![p] = NoTok]
                /\ instances' = getAllConfigs
                /\ UNCHANGED <<now, properties, ACCESS_TOKEN>>
           ELSE /\ ro' = [ro EXCEPT ![p] = [f EXCEPT !.pc = "token"]]
                /\ TokenEnter(p, instance)

(* the token call returned: no token ends the operation; deleteOrderFile   *)
(* goes on to the nested getOrderByOrderId, which asks for the token       *)
(* again; the others send their request                                    *)
ResourceAfterToken(p) ==
    /\ op[p] \in ResourceOps
    /\ ro[p].pc = "token"
    /\ TokenFinished(p)
    /\ IF tok[p].pc = "raised"
       THEN /\ ro' = [ro EXCEPT ![p].pc = "raised"]
            /\ tok' = [tok EXCEPT ![p] = NoTok]
            /\ UNCHANGED <<now, properties, instances, ACCESS_TOKEN>>
       ELSE IF NoToken(tok[p].ret)
       THEN /\ ro' = [ro EXCEPT ![p] = ResourceEnd(@, FailureValue(@.name))]
            /\ tok' = [tok EXCEPT ![p] = NoTok]
            /\ UNCHANGED <<now, properties, instances, ACCESS_TOKEN>>
       ELSE IF ro[p].name = "deleteOrderFile"
       THEN /\ ro' = [ro EXCEPT ![p].pc = "token_inner", ![p].bearer = tok[p].ret]
            /\ TokenEnter(p, ro[p].instance)
       ELSE /\ ro' = [ro EXCEPT ![p].pc = "api", ![p].bearer = tok[p].ret,
                                ![p].reqs = @ + 1]
            /\ tok' = [tok EXCEPT ![p] = NoTok]
            /\ UNCHANGED <<now, properties, instances, ACCESS_TOKEN>>
    /\ UNCHANGED <<op, pay, so>>

(* deleteOrderFile: the token call of the nested getOrderByOrderId returned *)
ResourceAfterInnerToken(p) ==
    /\ op[p] \in ResourceOps
    /\ ro[p].pc = "token_inner"
    /\ TokenFinished(p)
    /\ ro' = [ro EXCEPT ![p] =
          IF tok[p].pc = "raised" THEN [@ EXCEPT !.pc = "raised"]
          ELSE IF NoToken(tok[p].ret) THEN ResourceEnd(@, NULL)
          ELSE [@ EXCEPT !.pc = "api_inner", !.reqs = @ + 1]]
    /\ tok' = [tok EXCEPT ![p] = NoTok]
    /\ UNCHANGED <<now, properties, instances, ACCESS_TOKEN, op, pay, so>>

(* the response of the resource API *)
ResourceResponse(p, r) ==
    /\ op[p] \in ResourceOps
    /\ ro[p].pc \in {"api", "api_inner"}
    /\ ro' = [ro EXCEPT ![p] =
          IF ro[p].pc = "api" THEN ResourceEnd(@, ResourceValue(@.name, r))
          ELSE IF ResourceValue("getOrderByOrderId", r) = "raise"
          THEN [@ EXCEPT !.pc = "raised"]
          ELSE IF HasCustomerId(r) THEN [@ EXCEPT !.pc = "api", !.reqs = @ + 1]
          ELSE ResourceEnd(@, NULL)]
    /\ UNCHANGED <<now, properties, instances, ACCESS_TOKEN, op, tok, pay, so>>

(* the response of the token endpoint reaches the waiting call *)
TokenResponse(p, r) ==
    /\ TokenHandle(p, r)
    /\ UNCHANGED <<op, pay, so>>

(* time passes *)
ClockTick ==
    /\ now < MaxNow
    /\ now' = now + TickMs
    /\ UNCHANGED <<properties, instances, ACCESS_TOKEN, op, tok, pay, so>>

----------------------------------------------------------------------------
(* The script after loading: an empty cache, no configuration read yet *)

Init ==
    /\ now = 0
    /\ properties = [n \in InstanceNames |-> IF n \in Instance THEN "json" ELSE "none"]
    /\ instances = NotLoaded
    /\ ACCESS_TOKEN = [n \in InstanceNames |-> NoEntry]
    /\ op = [p \in Procs |-> "idle"]
    /\ tok = [p \in Procs |-> NoTok]
    /\ pay = [p \in Procs |-> NoPay]
    /\ so = [p \in Procs |-> NoSearch]
    /\ netlog = {}
    /\ calls = 0
    /\ backend = 0
    /\ earlier = NoEarlier
    /\ fo = [p \in Procs |-> NoFind]
    /\ web = NoWeb
    /\ mi = NoManifestCall
    /\ mret = NoManagerCall
    /\ ro = [p \in Procs |-> NoResource]

(* One execution at a time (Apps Script runs a script single-threaded) *)
Next ==
    \/ ClockTick /\ UNCHANGED <<side, netlog, calls, backend, earlier, fo>>
    \/ \E n \in InstanceNames : CallGetToken(Main, n) /\ UNCHANGED <<side, netlog, calls, backend, earlier, fo>>
    \/ \E r \in TokenResponses : TokenResponse(Main, r) /\ UNCHANGED <<side, netlog, calls, backend, earlier, fo>>
    \/ \E n \in InstanceNames : PayStart(Main, n) /\ UNCHANGED <<side, netlog, calls, backend, earlier, fo>>
    \/ PayAfterToken(Main) /\ UNCHANGED <<side, netlog, calls, backend, earlier, fo>>
    \/ \E r \in PutResponses : PayResponse(Main, r) /\ UNCHANGED <<side, netlog, calls, backend, earlier, fo>>

Spec == Init /\ [][Next]_vars

(* One execution at a time, running searchOrders *)
SearchNames == {"Amado", "Nope"}

NextSearch ==
    \/ ClockTick /\ UNCHANGED <<side, netlog, calls, backend, earlier, fo>>
    \/ \E n \in SearchNames : SearchStart(Main, n) /\ UNCHANGED <<side, netlog, calls, backend, earlier, fo>>
    \/ SearchAfterToken61(Main) /\ UNCHANGED <<side, netlog, calls, backend, earlier, fo>>
    \/ SearchAfterToken68(Main) /\ UNCHANGED <<side, netlog, calls, backend, earlier, fo>>
    \/ \E r \in TokenResponses : TokenResponse(Main, r) /\ UNCHANGED <<side, netlog, calls, backend, earlier, fo>>
    \/ \E r \in PageResponses : SearchPageResponse(Main, r) /\ UNCHANGED <<side, netlog, calls, backend, earlier, fo>>

SpecSearch == Init /\ [][NextSearch]_vars

(* an exchange the token endpoint granted: a well-formed 2xx response *)
Granted(r) ==
    r.kind = "data" /\ r.access_token # ABSENT /\ r.has_expires_in /\ r.expires_in # 0

(* searchOrders run again and again against a backend that does not        *)
(* change: the token endpoint grants every exchange, and the list endpoint *)
(* serves the same orders to every request carrying a token and refuses a  *)
(* request without one.                                                    *)

TwiceInstance == "Amado"

Refused == [NoPage EXCEPT !.kind = "non200"]

UnchangedBackendPage(p) ==
    IF tok[p].ret = NULL THEN Refused ELSE HonestPage(backend, so[p].offset)

TwiceStart(p) ==
    /\ SearchStart(p, TwiceInstance)
    /\ earlier' = IF so[p].pc = "returned"
                  THEN [done |-> TRUE, ret |-> so[p].ret]
                  ELSE earlier
    /\ UNCHANGED <<side, netlog, calls, backend, fo>>

InitTwice ==
    /\ now = 0
    /\ properties = [n \in InstanceNames |-> IF n \in Instance THEN "json" ELSE "none"]
    /\ instances = NotLoaded
    /\ ACCESS_TOKEN = [n \in InstanceNames |-> NoEntry]
    /\ op = [p \in Procs |-> "idle"]
    /\ tok = [p \in Procs |-> NoTok]
    /\ pay = [p \in Procs |-> NoPay]
    /\ so = [p \in Procs |-> NoSearch]
    /\ netlog = {}
    /\ calls = 0
    /\ backend \in Totals
    /\ earlier = NoEarlier
    /\ fo = [p \in Procs |-> NoFind]
    /\ web = NoWeb
    /\ mi = NoManifestCall
    /\ mret = NoManagerCall
    /\ ro = [p \in Procs |-> NoResource]

NextTwice ==
    \/ ClockTick /\ UNCHANGED <<side, netlog, calls, backend, earlier, fo>>
    \/ TwiceStart(Main)
    \/ SearchAfterToken61(Main) /\ UNCHANGED <<side, netlog, calls, backend, earlier, fo>>
    \/ SearchAfterToken68(Main) /\ UNCHANGED <<side, netlog, calls, backend, earlier, fo>>
    \/ \E r \in TokenResponses :
          Granted(r) /\ TokenResponse(Main, r)
          /\ UNCHANGED <<side, netlog, calls, backend, earlier, fo>>
    \/ SearchPageResponse(Main, UnchangedBackendPage(Main))
          /\ UNCHANGED <<side, netlog, calls, backend, earlier, fo>>

SpecTwice == InitTwice /\ [][NextTwice]_vars

(* One execution at a time, running findOrdersByContainerId *)
RetryNames == {"Amado", "Nope"}

NextRetry ==
    \/ ClockTick /\ UNCHANGED <<side, netlog, calls, backend, earlier, fo>>
    \/ \E n \in RetryNames :
          FindStart(Main, n) /\ UNCHANGED <<side, netlog, calls, backend, earlier>>
    \/ \E r \in TokenResponses :
          TokenResponse(Main, r) /\ UNCHANGED <<side, netlog, calls, backend, earlier, fo>>
    \/ FindAfterToken(Main) /\ UNCHANGED <<side, netlog, calls, backend, earlier>>
    \/ \E r \in FindResponses, j \in Jitters :
          FindResponse(Main, r, j) /\ UNCHANGED <<side, netlog, calls, backend, earlier>>
    \/ FindWake(Main) /\ UNCHANGED <<side, netlog, calls, backend, earlier>>

SpecRetry == Init /\ [][NextRetry]_vars

(* The web app receiving POST requests *)
NextWebhook == \E e \in Events : DoPost(e)

SpecWebhook == Init /\ [][NextWebhook]_vars

(* Calls of getManifestIdForInTransitOrder *)
NextManifest ==
    \/ GetManifestId(TRUE, << >>)
    \/ \E legs \in LegLists : GetManifestId(FALSE, legs)

SpecManifest == Init /\ [][NextManifest]_vars

(* One InstanceManager and the store behind it. The store starts with any *)
(* mix of missing, unparsable and valid properties for the two instances  *)
(* of the enum.                                                           *)
InitManager ==
    /\ now = 0
    /\ properties \in {f \in [InstanceNames -> {"none", "bad", "json"}] :
                         \A n \in InstanceNames \ Instance : f[n] = "none"}
    /\ instances = NotLoaded
    /\ ACCESS_TOKEN = [n \in InstanceNames |-> NoEntry]
    /\ op = [p \in Procs |-> "idle"]
    /\ tok = [p \in Procs |-> NoTok]
    /\ pay = [p \in Procs |-> NoPay]
    /\ so = [p \in Procs |-> NoSearch]
    /\ netlog = {}
    /\ calls = 0
    /\ backend = 0
    /\ earlier = NoEarlier
    /\ fo = [p \in Procs |-> NoFind]
    /\ web = NoWeb
    /\ mi = NoManifestCall
    /\ mret = NoManagerCall
    /\ ro = [p \in Procs |-> NoResource]

NextManager ==
    \/ \E m \in ManagerMethods, n \in ManagerNames : ManagerCall(m, n)
    \/ \E arg \in SetupArgs : setupConfigs(arg)
    \/ deleteAllConfigs

SpecManager == InitManager /\ [][NextManager]_vars

(* One execution at a time, running the resource operations, and          *)
(* searchOrders with the names outside the enum. The store holds, for the *)
(* first instance, no configuration, one without SUBDOMAIN or one with it. *)
ResourceNames == {"Amado", "Nope"}

InitResource ==
    /\ now = 0
    /\ properties \in {[n \in InstanceNames |->
                            IF n = "Amado" THEN v
                            ELSE IF n \in Instance THEN "json" ELSE "none"] :
                         v \in {"none", "json", "json_sub"}}
    /\ instances = NotLoaded
    /\ ACCESS_TOKEN = [n \in InstanceNames |-> NoEntry]
    /\ op = [p \in Procs |-> "idle"]
    /\ tok = [p \in Procs |-> NoTok]
    /\ pay = [p \in Procs |-> NoPay]
    /\ so = [p \in Procs |-> NoSearch]
    /\ netlog = {}
    /\ calls = 0
    /\ backend = 0
    /\ earlier = NoEarlier
    /\ fo = [p \in Procs |-> NoFind]
    /\ web = NoWeb
    /\ mi = NoManifestCall
    /\ mret = NoManagerCall
    /\ ro = [p \in Procs |-> NoResource]

NextResource ==
    \/ ClockTick /\ UNCHANGED <<netlog, calls, backend, earlier, fo, web, mi, mret, ro>>
    \/ \E name \in ResourceOps, n \in ResourceNames, okDescription \in BOOLEAN :
          /\ (name # "uploadFileToOrder" => okDescription)
          /\ ResourceStart(Main, name, n, okDescription)
          /\ UNCHANGED <<netlog, calls, backend, earlier, fo, web, mi, mret>>
    \/ \E r \in TokenResponses :
          TokenResponse(Main, r)
          /\ UNCHANGED <<netlog, calls, backend, earlier, fo, web, mi, mret, ro>>
    \/ \E n \in ResourceNames \ Instance :
          SearchStart(Main, n)
          /\ UNCHANGED <<netlog, calls, backend, earlier, fo, web, mi, mret, ro>>
    \/ ResourceAfterToken(Main)
          /\ UNCHANGED <<netlog, calls, backend, earlier, fo, web, mi, mret>>
    \/ ResourceAfterInnerToken(Main)
          /\ UNCHANGED <<netlog, calls, backend, earlier, fo, web, mi, mret>>
    \/ \E r \in ApiResponses :
          ResourceResponse(Main, r)
          /\ UNCHANGED <<netlog, calls, backend, earlier, fo, web, mi, mret>>

SpecResource == InitResource /\ [][NextResource]_vars

(* Two executions sharing the cache and calling for the same instance *)

RaceInstance == "Amado"

RaceCall(p, instanceName) ==
    /\ calls < MaxCalls
    /\ CallGetToken(p, instanceName)
    /\ calls' = calls + 1
    /\ UNCHANGED <<side, netlog, backend, earlier, fo>>

RaceResponse(p, r) ==
    /\ TokenResponse(p, r)
    /\ netlog' = IF Granted(r)
                 THEN netlog \cup {[name |-> tok[p].arg, access_token |-> r.access_token,
                                    expires_in |-> r.expires_in, at |-> now]}
                 ELSE netlog
    /\ UNCHANGED <<side, calls, backend, earlier, fo>>

NextRace ==
    \/ ClockTick /\ UNCHANGED <<side, netlog, calls, backend, earlier, fo>>
    \/ \E p \in Procs : RaceCall(p, RaceInstance)
    \/ \E p \in Procs, r \in TokenResponses : RaceResponse(p, r)

SpecRace == Init /\ [][NextRace]_vars

----------------------------------------------------------------------------
(* Properties of the token cache *)

(* a call of getAccessTokenForInstance by p begins in this step *)
Entering(p) == tok[p].pc # "fetching" /\ tok'[p] # tok[p]

(* the response of the token endpoint is handled by p in this step *)
Handling(p) == tok[p].pc = "fetching" /\ tok'[p].pc # "fetching"

Unexpired(entry, clock) == entry.present /\ entry.expires_at > clock

(* C1: for a configured instance, a call made while the cached expires_at  *)
(* is greater than the clock returns the cached token, sends nothing to    *)
(* the token endpoint and leaves the cache alone; an entry is only ever    *)
(* replaced when it is no longer valid (one exchange per token lifetime).  *)
C1_CachedTokenReused ==
    [][ /\ \A p \in Procs :
             (/\ Entering(p)
              /\ properties[tok'[p].arg] = "json"
              /\ Unexpired(ACCESS_TOKEN[tok'[p].arg], now))
             => /\ tok'[p].pc = "returned"
                /\ tok'[p].ret = ACCESS_TOKEN[tok'[p].arg].token
                /\ tok'[p].reqs = 0
                /\ ACCESS_TOKEN' = ACCESS_TOKEN
        /\ \A n \in InstanceNames :
             ACCESS_TOKEN'[n] # ACCESS_TOKEN[n] => ~Unexpired(ACCESS_TOKEN[n], now)
      ]_vars

(* a call that found a valid entry after time had passed since the exchange *)
C1_Witness ==
    /\ tok[Main].pc = "returned"
    /\ tok[Main].reqs = 0
    /\ tok[Main].seen.present
    /\ tok[Main].ret = tok[Main].seen.token
    /\ tok[Main].seen.expires_at > tok[Main].seenNow

(* C2: a call that finds an expired entry sends exactly one request to the *)
(* token endpoint; when the exchange succeeds it returns the token of that *)
(* response and the cache holds that token with the expiry computed from   *)
(* that response.                                                          *)
C2_ExpiredEntryRefreshed ==
    \A p \in {Main} :
        (/\ tok[p].pc # "none"
         /\ tok[p].seen.present
         /\ tok[p].seen.expires_at <= tok[p].seenNow)
        => /\ tok[p].reqs = 1
           /\ (TokenFinished(p) /\ Granted(tok[p].resp))
              => /\ tok[p].pc = "returned"
                 /\ tok[p].ret = tok[p].resp.access_token
                 /\ ACCESS_TOKEN[tok[p].arg].present
                 /\ ACCESS_TOKEN[tok[p].arg].token = tok[p].resp.access_token
                 /\ LET t0 == ACCESS_TOKEN[tok[p].arg].expires_at
                              - tok[p].resp.expires_in * 1000
                    IN  tok[p].seenNow <= t0 /\ t0 <= now

(* an expired entry was replaced by a different token *)
C2_Witness ==
    /\ tok[Main].pc = "returned"
    /\ tok[Main].seen.present
    /\ tok[Main].seen.expires_at <= tok[Main].seenNow
    /\ Granted(tok[Main].resp)
    /\ tok[Main].ret # tok[Main].seen.token
    /\ ACCESS_TOKEN[tok[Main].arg].expires_at > now

(* C3: whenever a call returns a token, the cache entry of that instance   *)
(* has an expires_at strictly greater than the clock at that moment.       *)
C3_ReturnedTokenUnexpired ==
    [][ \A p \in Procs :
          (tok'[p] # tok[p] /\ tok'[p].pc = "returned" /\ tok'[p].ret # NULL)
          => Unexpired(ACCESS_TOKEN'[tok'[p].arg], now')
      ]_vars

(* C4: when the exchange answers non-2xx or fetch throws, the call returns *)
(* null after its single request and the whole cache is unchanged; the     *)
(* next call for that instance sends a new request to the token endpoint.  *)
ExchangeFailed(r) == r.kind \in {"non2xx", "exception"}

C4_FailedExchangeKeepsCache ==
    [][ \A p \in Procs :
          /\ (Handling(p) /\ ExchangeFailed(tok'[p].resp))
             => /\ tok'[p].pc = "returned"
                /\ tok'[p].ret = NULL
                /\ tok'[p].reqs = 1
                /\ ACCESS_TOKEN' = ACCESS_TOKEN
          /\ (/\ TokenFinished(p) /\ ExchangeFailed(tok[p].resp)
              /\ Entering(p) /\ tok'[p].arg = tok[p].arg)
             => /\ tok'[p].pc = "fetching"
                /\ tok'[p].reqs = 1
      ]_vars

(* a failed exchange that left a stale entry in place *)
C4_Witness ==
    /\ tok[Main].pc = "returned"
    /\ ExchangeFailed(tok[Main].resp)
    /\ tok[Main].seen.present
    /\ ACCESS_TOKEN[tok[Main].arg] = tok[Main].seen

(* C5: a 2xx response without access_token or expires_in, without the data *)
(* envelope or with an unparsable body makes the call return null without  *)
(* raising, and nothing is written to the cache.                           *)
Malformed(r) ==
    \/ r.kind \in {"badjson", "nodata"}
    \/ r.kind = "data" /\ (r.access_token = ABSENT \/ ~r.has_expires_in)

C5_MalformedResponseNotCached ==
    [][ \A p \in Procs :
          (Handling(p) /\ Malformed(tok'[p].resp))
          => /\ tok'[p].pc = "returned"
             /\ tok'[p].ret = NULL
             /\ ACCESS_TOKEN' = ACCESS_TOKEN
      ]_vars

(* an unparsable body was answered with null *)
C5_Witness ==
    /\ tok[Main].pc = "returned"
    /\ tok[Main].resp.kind \in {"badjson", "nodata"}
    /\ tok[Main].ret = NULL

(* C6: for a name without a stored configuration the call ends with the    *)
(* failure value: it does not raise and sends no request.                  *)
C6_UnknownTenantFails ==
    \A p \in Procs :
        (TokenFinished(p) /\ properties[tok[p].arg] # "json")
        => /\ tok[p].pc = "returned"
           /\ tok[p].ret = NULL
           /\ tok[p].reqs = 0

(* C7: the entry of an instance changes only in the step in which a call   *)
(* of getAccessTokenForInstance for that instance handles a granted        *)
(* exchange: not in calls for other instances, failed exchanges, cache     *)
(* hits, steps of putPaymentForManifest or the passing of time.            *)
C7_EntryChangesOnlyOnOwnExchange ==
    [][ \A n \in InstanceNames :
          ACCESS_TOKEN'[n] # ACCESS_TOKEN[n]
          => \E p \in Procs :
                /\ Handling(p)
                /\ tok[p].arg = n
                /\ tok'[p].pc = "returned"
                /\ Granted(tok'[p].resp)
                /\ tok'[p].ret = tok'[p].resp.access_token
                /\ ACCESS_TOKEN'[n].present
                /\ ACCESS_TOKEN'[n].token = tok'[p].ret
      ]_vars

(* both instances hold an entry, with different tokens, while              *)
(* putPaymentForManifest has a request under way                           *)
C7_Witness ==
    /\ ACCESS_TOKEN["Amado"].present
    /\ ACCESS_TOKEN["Sonot"].present
    /\ ACCESS_TOKEN["Amado"].token # ACCESS_TOKEN["Sonot"].token
    /\ pay[Main].pc = "put"

(* C8: under every interleaving the cached (token, expires_at) pair of an  *)
(* instance is the pair of one granted exchange; a call that exchanged     *)
(* returns the token of its own response; and the entry after a granted    *)
(* exchange is handled is that exchange's record (the last write wins).    *)
EntryOf(x) == [present |-> TRUE, token |-> x.access_token,
               expires_at |-> x.at + x.expires_in * 1000]

C8_EntryFromOneExchange ==
    [][ /\ \A n \in InstanceNames :
             ACCESS_TOKEN'[n].present
             => \E x \in netlog' : x.name = n /\ ACCESS_TOKEN'[n] = EntryOf(x)
        /\ \A p \in Procs :
             (Handling(p) /\ Granted(tok'[p].resp))
             => /\ tok'[p].ret = tok'[p].resp.access_token
                /\ ACCESS_TOKEN'[tok[p].arg] =
                     EntryOf([name |-> tok[p].arg,
                              access_token |-> tok'[p].resp.access_token,
                              expires_in |-> tok'[p].resp.expires_in,
                              at |-> now])
      ]_vars

(* both executions missed, both exchanged for the same instance with       *)
(* different tokens, and both have returned                                *)
C8_Witness ==
    /\ tok["p1"].pc = "returned" /\ tok["p2"].pc = "returned"
    /\ tok["p1"].arg = tok["p2"].arg
    /\ tok["p1"].reqs = 1 /\ tok["p2"].reqs = 1
    /\ tok["p1"].seen = tok["p2"].seen
    /\ Granted(tok["p1"].resp) /\ Granted(tok["p2"].resp)
    /\ tok["p1"].ret # tok["p2"].ret
    /\ ACCESS_TOKEN[tok["p1"].arg].token = tok["p2"].ret

----------------------------------------------------------------------------
(* Properties of searchOrders *)

CeilDiv(a, b) == (a + b - 1) \div b

(* the run ended with a list, against a backend that held T orders and     *)
(* answered every page request of the run with its page                    *)
HonestRun(p, T) == so[p].pc = "returned" /\ ~so[p].ret.null /\ T \in so[p].honest

(* C9 as stated: against a backend with a constant total T that returns    *)
(* full pages, exactly ceil(T/50) page requests are made and the T orders  *)
(* are returned in server order.                                           *)
C9_CeilRequests ==
    \A T \in Totals :
        HonestRun(Main, T)
        => /\ Len(so[Main].requested) = CeilDiv(T, limit)
           /\ so[Main].ret.orders = [i \in 1 .. T |-> i]

(* C9, amended: the same with one page request when T = 0 (the loop body   *)
(* runs before any total is known); the requests ask for the offsets 0,    *)
(* 50, 100, ... in turn.                                                   *)
C9_HonestBackendAllOrders ==
    \A T \in Totals :
        HonestRun(Main, T)
        => /\ Len(so[Main].requested) = (IF T = 0 THEN 1 ELSE CeilDiv(T, limit))
           /\ so[Main].requested = [i \in 1 .. Len(so[Main].requested) |-> (i - 1) * limit]
           /\ so[Main].totalCalls = Len(so[Main].requested)
           /\ so[Main].ret.orders = [i \in 1 .. T |-> i]

(* two full pages and a short one were fetched *)
C9_Witness ==
    /\ HonestRun(Main, 2 * limit + Rem)
    /\ Len(so[Main].requested) = 3
    /\ Len(so[Main].ret.orders) = 2 * limit + Rem

(* a page response is handled by p in this step *)
PageHandled(p) == so[p].pc = "page" /\ so'[p].pc # "page"

(* C10: a page without an orders array, or with an empty one, ends the     *)
(* run at that page whatever total was reported: what was accumulated so   *)
(* far is returned as a list and no further request is made.               *)
C10_EmptyPageEndsSearch ==
    [][ \A p \in Procs :
          (/\ PageHandled(p)
           /\ so'[p].resp.kind = "json"
           /\ (~so'[p].resp.has_orders \/ so'[p].resp.n = 0))
          => /\ so'[p].pc = "returned"
             /\ ~so'[p].ret.null
             /\ so'[p].ret.orders = so[p].allOrders
             /\ so'[p].requested = so[p].requested
             /\ tok'[p] = tok[p]
      ]_vars

(* an empty page ended a run that had fewer orders than the reported total *)
C10_Witness ==
    /\ so[Main].pc = "returned"
    /\ so[Main].resp.kind = "json"
    /\ so[Main].resp.n = 0
    /\ ~so[Main].ret.null
    /\ Len(so[Main].ret.orders) > 0
    /\ Len(so[Main].ret.orders) < so[Main].totalOrders
    /\ so[Main].resp.has_total /\ so[Main].resp.total > Len(so[Main].ret.orders)

(* C11: a page response that is not 2xx (its code is then not 200), on the *)
(* first or a later page, ends the run at once: the failure value is       *)
(* returned, not the orders accumulated so far, and nothing more is sent.  *)
C11_FailedPageReturnsNull ==
    [][ \A p \in Procs :
          (PageHandled(p) /\ so'[p].resp.kind = "non200")
          => /\ so'[p].pc = "returned"
             /\ so'[p].ret.null
             /\ so'[p].ret.orders = << >>
             /\ so'[p].requested = so[p].requested
             /\ tok'[p] = tok[p]
      ]_vars

(* a later page failed after orders had been accumulated *)
C11_Witness ==
    /\ so[Main].pc = "returned"
    /\ so[Main].resp.kind = "non200"
    /\ Len(so[Main].allOrders) > 0
    /\ Len(so[Main].requested) > 1
    /\ so[Main].ret.null

(* the last response of the run carried no orders *)
LastPageEmpty(p) ==
    so[p].resp.kind = "json" /\ (~so[p].resp.has_orders \/ so[p].resp.n = 0)

(* C12: whenever the last response reported a total, the number of orders  *)
(* accumulated so far, and the result once the run returned one, is at     *)
(* most that total, whatever page sizes and totals the server sends.       *)
C12_AccumulatedWithinTotal ==
    \A p \in Procs :
        (so[p].pc # "none" /\ so[p].resp.kind = "json" /\ so[p].resp.has_total)
        => /\ Len(so[p].allOrders) <= so[p].resp.total
           /\ (so[p].pc = "returned" /\ ~so[p].ret.null)
              => Len(so[p].ret.orders) <= so[p].resp.total

(* C13 as stated: a run that returned a result either accumulated at least *)
(* the total it holds or saw a page without orders.                        *)
C13_StopsOnTwoConditions ==
    \A p \in Procs :
        (so[p].pc = "returned" /\ ~so[p].ret.null)
        => \/ Len(so[p].allOrders) >= so[p].totalOrders
           \/ LastPageEmpty(p)

(* C13 amended: a run that returned a result accumulated at least the      *)
(* total it holds, or saw a page without orders, or its next offset is at  *)
(* least that total; and a run that goes on to another page after a        *)
(* response satisfies none of the three.                                   *)
C13_StopsOnThreeConditions ==
    \A p \in Procs :
        /\ (so[p].pc = "returned" /\ ~so[p].ret.null)
           => \/ Len(so[p].allOrders) >= so[p].totalOrders
              \/ LastPageEmpty(p)
              \/ so[p].offset >= so[p].totalOrders
        /\ (so[p].pc \in {"token68", "page"} /\ so[p].totalCalls > 0)
           => /\ Len(so[p].allOrders) < so[p].totalOrders
              /\ ~LastPageEmpty(p)
              /\ so[p].offset < so[p].totalOrders

(* a run ended by the offset alone: short pages left it below the total *)
C13_Witness ==
    /\ so[Main].pc = "returned"
    /\ ~so[Main].ret.null
    /\ Len(so[Main].allOrders) < so[Main].totalOrders
    /\ ~LastPageEmpty(Main)
    /\ so[Main].offset >= so[Main].totalOrders
    /\ Len(so[Main].requested) > 1

(* C14: while no usable total was reported in the run, a page with orders  *)
(* and without a usable total does not end pagination: the next page is    *)
(* asked for.                                                              *)
C14_MissingTotalKeepsPaging ==
    [][ \A p \in Procs :
          ( /\ PageHandled(p)
            /\ so[p].totalOrders = 0
            /\ so'[p].resp.kind = "json"
            /\ so'[p].resp.has_orders /\ so'[p].resp.n > 0
            /\ ~(so'[p].resp.has_total /\ so'[p].resp.total # 0) )
          => so'[p].pc = "token68"
      ]_vars

Max(a, b) == IF a > b THEN a ELSE b

(* C15 as stated: a run that returned a result with a total in its last    *)
(* response made at most ceil(total / limit) page requests.                *)
C15_RequestsWithinCeil ==
    \A p \in Procs :
        (so[p].pc = "returned" /\ ~so[p].ret.null /\ so[p].resp.has_total)
        => Len(so[p].requested) <= CeilDiv(so[p].resp.total, 50)

(* C15 amended: the first page request is always sent, and the k-th is     *)
(* sent only if k <= ceil(total / limit) for the total the run holds then, *)
(* so the loop ends after at most max(1, ceil(total / limit)) requests.    *)
C15_RequestsWithinHeldTotal ==
    [][ \A p \in Procs :
          Len(so'[p].requested) > Len(so[p].requested)
          => /\ Len(so'[p].requested) = Len(so[p].requested) + 1
             /\ Len(so'[p].requested) <= Max(1, CeilDiv(so'[p].totalOrders, 50))
      ]_vars

(* the bound is attained: three requests for a total of three pages *)
C15_Witness ==
    /\ so[Main].pc = "returned"
    /\ ~so[Main].ret.null
    /\ Len(so[Main].requested) = 3
    /\ CeilDiv(so[Main].totalOrders, 50) = 3

----------------------------------------------------------------------------
(* Properties of the retry loop of findOrdersByContainerId *)

(* a response of the search endpoint is handled by p in this step *)
FindHandled(p) == fo[p].pc = "fetch" /\ Len(fo'[p].outs) = Len(fo[p].outs) + 1

(* the response handled last *)
LastOut(f) == f.outs[Len(f.outs)]

Is5xx(r) == r.kind = "http" /\ r.code >= 500 /\ r.code <= 599
Is4xx(r) == r.kind = "http" /\ r.code >= 400 /\ r.code <= 499
Is2xx(r) == r.kind = "http" /\ r.code >= 200 /\ r.code <= 299

(* C17: one call of findOrdersByContainerId sends at most 3 requests to    *)
(* the search endpoint, whatever the responses are: one per attempt.       *)
C17_AtMostThreeRequests ==
    \A p \in Procs :
        /\ fo[p].reqs <= 3
        /\ fo[p].pc \in {"fetch", "backoff", "returned"} => Len(fo[p].outs) <= fo[p].reqs
        /\ fo[p].pc = "fetch" => fo[p].reqs = fo[p].attempt

(* three requests were sent *)
C17_Witness == fo[Main].pc = "returned" /\ fo[Main].reqs = 3 /\ Len(fo[Main].outs) = 3

(* C18: a 4xx response on any attempt ends the call: null is returned, no  *)
(* sleep follows and no request is sent after it; when the first attempt   *)
(* is answered 400 the call made exactly one request.                      *)
C18_ClientErrorIsTerminal ==
    [][ \A p \in Procs :
          (FindHandled(p) /\ Is4xx(LastOut(fo'[p])))
          => /\ fo'[p].pc = "returned"
             /\ fo'[p].ret = "null"
             /\ fo'[p].sleeps = fo[p].sleeps
             /\ fo'[p].reqs = fo[p].reqs
             /\ (fo[p].attempt = 1 /\ LastOut(fo'[p]).code = 400) => fo'[p].reqs = 1
      ]_vars

(* a 400 on the first attempt, and a 4xx after a retry *)
C18_Witness ==
    /\ fo[Main].pc = "returned"
    /\ Len(fo[Main].outs) = 2
    /\ Is5xx(fo[Main].outs[1])
    /\ Is4xx(fo[Main].outs[2])
    /\ fo[Main].reqs = 2

(* C19: a call that returned after every attempt was answered 5xx, or      *)
(* after every attempt raised a network exception, made exactly 3 requests *)
(* and returned null.                                                      *)
C19_AllFailuresThreeRequests ==
    \A p \in Procs :
        ( /\ fo[p].pc = "returned"
          /\ fo[p].outs # << >>
          /\ \/ \A i \in 1 .. Len(fo[p].outs) : Is5xx(fo[p].outs[i])
             \/ \A i \in 1 .. Len(fo[p].outs) : fo[p].outs[i].kind = "exception" )
        => /\ fo[p].reqs = 3
           /\ Len(fo[p].outs) = 3
           /\ fo[p].ret = "null"

(* three attempts answered 5xx *)
C19_Witness ==
    /\ fo[Main].pc = "returned"
    /\ Len(fo[Main].outs) = 3
    /\ \A i \in 1 .. 3 : Is5xx(fo[Main].outs[i])
    /\ Len(fo[Main].sleeps) = 2

(* C20: after a 5xx or an exception on attempt n < 3 exactly one sleep of  *)
(* 2^n * 1000 ms plus a jitter in [0, 1000) is taken and attempt n + 1     *)
(* follows; no sleep is taken after the last attempt, after a 2xx or after *)
(* a 4xx; a 2xx on any attempt ends the call with a success result and no  *)
(* further request.                                                        *)
C20_BackoffStateMachine ==
    [][ \A p \in Procs :
          /\ FindHandled(p) =>
               LET r == LastOut(fo'[p])
                   n == fo[p].attempt
               IN  /\ ((Is5xx(r) \/ r.kind = "exception") /\ n < 3)
                      => /\ fo'[p].pc = "backoff"
                         /\ Len(fo'[p].sleeps) = Len(fo[p].sleeps) + 1
                         /\ LastOut([outs |-> fo'[p].sleeps]).ms >= Pow2(n) * 1000
                         /\ LastOut([outs |-> fo'[p].sleeps]).ms < Pow2(n) * 1000 + 1000
                   /\ (n = 3 \/ Is2xx(r) \/ Is4xx(r))
                      => fo'[p].sleeps = fo[p].sleeps
                   /\ Is2xx(r)
                      => /\ fo'[p].pc = "returned"
                         /\ fo'[p].ret \in {"orders", "empty"}
                         /\ fo'[p].reqs = fo[p].reqs
          /\ (fo[p].pc = "backoff" /\ fo'[p] # fo[p])
             => /\ fo'[p].pc = "fetch"
                /\ fo'[p].attempt = fo[p].attempt + 1
                /\ fo'[p].sleeps = fo[p].sleeps
      ]_vars

(* C21: a 2xx response whose body cannot be parsed ends the call: the      *)
(* failure value is returned, and neither a backoff sleep nor a further    *)
(* request follows from the parse failure.                                 *)
C21_UnparsableBodyIsTerminal ==
    [][ \A p \in Procs :
          ( /\ FindHandled(p)
            /\ Is2xx(LastOut(fo'[p]))
            /\ LastOut(fo'[p]).body = "badjson" )
          => /\ fo'[p].pc = "returned"
             /\ fo'[p].ret = "null"
             /\ fo'[p].sleeps = fo[p].sleeps
             /\ fo'[p].reqs = fo[p].reqs
      ]_vars

----------------------------------------------------------------------------
(* Further properties of searchOrders *)

(* C22: whatever its HTTP calls and its token acquisition produce,         *)
(* searchOrders ends by returning a value: no run ends with an exception   *)
(* raised to the caller.                                                   *)
C22_NoExceptionEscapes == \A p \in Procs : so[p].pc # "raised"

(* C29: every page request of searchOrders is sent with a token: when the  *)
(* token call made before a page returned none, no request is sent to the  *)
(* list endpoint and the run returns the failure value.                    *)
C29_NoPageRequestWithoutToken ==
    [][ \A p \in Procs :
          /\ Len(so'[p].requested) > Len(so[p].requested) => tok[p].ret # "null"
          /\ (so[p].pc = "token68" /\ tok[p].pc = "returned" /\ tok[p].ret = "null"
                /\ so'[p] # so[p])
             => /\ so'[p].pc = "returned"
                /\ so'[p].ret.null
                /\ so'[p].requested = so[p].requested
      ]_vars

(* C30: the offsets requested in a run are 0, 50, 100, ... in this order:  *)
(* the i-th request asks for offset (i - 1) * 50, whatever the sizes of    *)
(* the pages before it.                                                    *)
C30_OffsetsAreMultiplesInOrder ==
    \A p \in Procs :
        \A i \in 1 .. Len(so[p].requested) : so[p].requested[i] = (i - 1) * 50

(* three requests, the pages before the third being short *)
C30_Witness ==
    /\ so[Main].requested = <<0, 50, 100>>
    /\ Len(so[Main].allOrders) > 0
    /\ Len(so[Main].allOrders) < 100

----------------------------------------------------------------------------
(* Properties of doPost *)

(* C23: for every event object doPost returns its JSON text output (served *)
(* with status 200) carrying a boolean success field: it never lets an     *)
(* exception out.                                                          *)
C23_AlwaysJsonWithSuccess ==
    web.called => (web.resp.kind = "json" /\ web.resp.success \in BOOLEAN)

(* contents that parse to null were answered *)
C23_Witness ==
    /\ web.called
    /\ web.e.kind = "json_null"
    /\ web.resp.kind = "json"
    /\ ~web.resp.success

(* C24: success is true exactly for a parsed payload with non-empty event, *)
(* current_status and order_id whose event is 'order.status_updated' and   *)
(* whose current_status is 'in-transit'; the success response echoes the   *)
(* payload's current_status and order_id; a payload with the three fields  *)
(* whose event is another one gets 'Incorrect event type', also when its   *)
(* status is not 'in-transit', and one with the right event and another    *)
(* status gets 'Incorrect status'.                                         *)
C24_SuccessExactlyForInTransitUpdate ==
    web.called =>
        LET complete == /\ web.e.kind = "object"
                        /\ web.e.event \notin {"absent", ""}
                        /\ web.e.current_status \notin {"absent", ""}
                        /\ web.e.order_id \notin {"absent", ""}
        IN  /\ web.resp.success
               <=> (/\ complete
                    /\ web.e.event = "order.status_updated"
                    /\ web.e.current_status = "in-transit")
            /\ web.resp.success
               => /\ web.resp.current_status = web.e.current_status
                  /\ web.resp.order_id = web.e.order_id
            /\ (complete /\ web.e.event # "order.status_updated")
               => web.resp.error = "Incorrect event type"
            /\ (complete /\ web.e.event = "order.status_updated"
                         /\ web.e.current_status # "in-transit")
               => web.resp.error = "Incorrect status"

(* a payload wrong in both its event and its status *)
C24_Witness ==
    /\ web.called
    /\ web.e.kind = "object"
    /\ web.e.event = "order.created"
    /\ web.e.current_status = "created"
    /\ web.e.order_id = "ord2"
    /\ web.resp.error = "Incorrect event type"

----------------------------------------------------------------------------
(* Properties of getManifestIdForInTransitOrder *)

(* C28: for a list of legs that holds a 'loaded' leg the manifest id of a  *)
(* 'loaded' leg is returned, wherever the 'dispatched' line_haul legs are; *)
(* null is returned when no leg is 'loaded' or a 'dispatched' line_haul.   *)
C28_LoadedTakesPrecedence ==
    (mi.called /\ ~mi.null) =>
        LET idx == 1 .. Len(mi.legs)
        IN  /\ (\E i \in idx : mi.legs[i].status = "loaded")
               => \E i \in idx : /\ mi.legs[i].status = "loaded"
                                 /\ mi.ret = mi.legs[i].manifest_id
            /\ (\A i \in idx : /\ mi.legs[i].status # "loaded"
                               /\ ~(mi.legs[i].status = "dispatched"
                                    /\ mi.legs[i].type = "line_haul"))
               => mi.ret = "null"

----------------------------------------------------------------------------
(* Properties of the InstanceManager *)

(* C27: the manager reads the store at most once; once loaded, what it     *)
(* holds never changes, whatever setupConfigs and deleteAllConfigs do to   *)
(* the store, and every getConfig made after the load returns the          *)
(* configuration the load stored for that tenant (null if it stored none). *)
C27_LoadedOnceAndFrozen ==
    [][ /\ instances'.reads <= 1
        /\ instances.loaded
           => /\ instances' = instances
              /\ (mret' # mret /\ mret'.method = "getConfig")
                 => mret'.config = IF mret'.arg \in instances.names
                                   THEN instances.configs[mret'.arg]
                                   ELSE "null"
      ]_vars

(* a getConfig made after setupConfigs replaced the stored configuration   *)
(* returned the configuration of the first load                            *)
C27_Witness ==
    /\ mret.called
    /\ mret.method = "getConfig"
    /\ mret.arg = "Amado"
    /\ mret.config = "json"
    /\ mret.store["Amado"] = "json_sub"
    /\ instances.reads = 1


(* a resource operation, or searchOrders, is being called by p in this step *)
ResourceCalled(p) ==
    /\ ro[p].pc \in {"none", "returned", "raised"}
    /\ so[p].pc \in {"none", "returned", "raised"}
    /\ \/ op'[p] \in ResourceOps /\ ro'[p] # ro[p]
       \/ op'[p] = "searchOrders" /\ so'[p] # so[p]

(* C25: an operation that validates its instance against the Instance enum *)
(* (getOrderByOrderId, getOrderLegsByOrderId, uploadFileToOrder,           *)
(* deleteOrderFile, searchOrders, createOrder, postRoserocketInternalNote) *)
(* and is called with an instance outside the enum returns its failure     *)
(* value (false for postRoserocketInternalNote, null for the others) in    *)
(* that very step: no token call is entered, no request is sent to the     *)
(* token endpoint or to the API, and the token cache is left as it was.    *)
C25_InvalidInstanceReturnsBeforeToken ==
    [][\A p \in Procs :
         /\ ResourceCalled(p)
         /\ op'[p] \in ResourceOps => ro'[p].instance \notin {"Amado", "Sonot"}
         /\ op'[p] = "searchOrders" => so'[p].instance \notin {"Amado", "Sonot"}
         => /\ op'[p] \in ResourceOps =>
                 /\ ro'[p].pc = "returned"
                 /\ ro'[p].reqs = 0
                 /\ ro'[p].ret = IF op'[p] = "postRoserocketInternalNote"
                                 THEN "false" ELSE "null"
            /\ op'[p] = "searchOrders" =>
                 /\ so'[p].pc = "returned"
                 /\ so'[p].ret.null
                 /\ so'[p].requested = << >>
            /\ tok'[p].pc = "none"
            /\ tok'[p].reqs = 0
            /\ ACCESS_TOKEN' = ACCESS_TOKEN]_vars

(* C25 witness: uploadFileToOrder has returned null for an instance outside *)
(* the enum while the cache holds a token of an earlier call                *)
C25_Witness ==
    /\ op[Main] = "uploadFileToOrder"
    /\ ro[Main].instance = "Nope"
    /\ ro[Main].pc = "returned"
    /\ ro[Main].ret = "null"
    /\ ro[Main].reqs = 0
    /\ ACCESS_TOKEN["Amado"].present

(* C26: when the token call of getOrderByOrderId, getOrderLegsByOrderId or *)
(* uploadFileToOrder has returned no token, the operation returns null and *)
(* has sent no request to the resource API.                                *)
C26_NoTokenNoRequest ==
    [][\A p \in Procs :
         /\ op[p] \in {"getOrderByOrderId", "getOrderLegsByOrderId", "uploadFileToOrder"}
         /\ ro[p].pc = "token"
         /\ tok[p].pc = "returned"
         /\ tok[p].ret = "null"
         /\ ro'[p] # ro[p]
         => /\ ro'[p].pc = "returned"
            /\ ro'[p].ret = "null"
            /\ ro'[p].reqs = 0]_vars

(* C26 witness: getOrderByOrderId, called for an instance of the enum, has *)
(* returned null without a request, which only the missing token does      *)
C26_Witness ==
    /\ op[Main] = "getOrderByOrderId"
    /\ ro[Main].instance = "Amado"
    /\ ro[Main].pc = "returned"
    /\ ro[Main].ret = "null"
    /\ ro[Main].reqs = 0

====
